---- MODULE Spec2Model ----
(***************************************************************************)
(* A model of siq2json2 (src/bin/index.ts): the extraction of a .siq       *)
(* archive, the top-level promise chain that reads, parses, maps, writes   *)
(* scenario.json, renames the folder and cleans up, and the per-question   *)
(* mapping done by convertToJSON.                                          *)
(*                                                                         *)
(* JavaScript strings are sequences of one-character strings, so that      *)
(* parseInt, String.replace and path.normalize are computed character by   *)
(* character. A JavaScript number is a record: NaN or an integer.          *)
(***************************************************************************)
EXTENDS Integers, Sequences, FiniteSets, TLC

VARIABLES
    question,       \* the SIGame.QuestionData node handed to the mapper
    q,              \* the question object built by convertToJSON
    mapState,       \* "idle" | "done" | "threw": convertToJSON's outcome
    pc,             \* position of the top-level promise chain
    pkgId,          \* package.$.id of content.xml
    xmlOk,          \* whether content.xml in the archive is well-formed XML
    archive,        \* the entries of the zip, in archive order
    emitted,        \* number of 'entry' events the parser has emitted
    ws,             \* per entry: state of its fs write stream
    unzipPromise,   \* "pending" | "resolved" | "rejected"
    dirs,           \* the file system: directory name -> NoDir or its files
    xmlRead,        \* what readFile returned for content.xml
    error,          \* the rejection travelling down the chain ("none" if none)
    failedStage,    \* the stage that raised it
    diag,           \* console.error was called by the .catch handler
    proc,           \* "running" | "exited" | "crashed" (uncaught exception)
    exitCode,       \* the exit code of the process once it has ended
    cleanupErrs     \* the rejections collected by Promise.allSettled

mapVars == <<question, q, mapState>>
chainVars == <<pc, pkgId, xmlOk, archive, emitted, ws, unzipPromise, dirs, xmlRead,
               error, failedStage, diag, proc, exitCode, cleanupErrs>>
vars == <<question, q, mapState, pc, pkgId, xmlOk, archive, emitted, ws, unzipPromise,
          dirs, xmlRead, error, failedStage, diag, proc, exitCode, cleanupErrs>>

----------------------------------------------------------------------------
(* Bounds of the model *)

MaxAtoms == 2
MaxParams == 2

----------------------------------------------------------------------------
(* JavaScript values *)

NaN == [isNaN |-> TRUE, val |-> 0]
Num(n) == [isNaN |-> FALSE, val |-> n]

Digits == {"0", "1", "2", "5", "7"}
DigitVal(c) ==
    CASE c = "0" -> 0
      [] c = "1" -> 1
      [] c = "2" -> 2
      [] c = "5" -> 5
      [] c = "7" -> 7

RECURSIVE SkipSpaces(_)
SkipSpaces(s) ==
    IF s # <<>> /\ Head(s) = " " THEN SkipSpaces(Tail(s)) ELSE s

RECURSIVE DigitPrefix(_)
DigitPrefix(s) ==
    IF s # <<>> /\ Head(s) \in Digits THEN <<Head(s)>> \o DigitPrefix(Tail(s)) ELSE <<>>

RECURSIVE DigitsValue(_)
DigitsValue(ds) ==
    IF ds = <<>> THEN 0
    ELSE 10 * DigitsValue(SubSeq(ds, 1, Len(ds) - 1)) + DigitVal(ds[Len(ds)])

\* parseInt(s, 10): leading white space is skipped, one sign is accepted, then the
\* longest prefix of decimal digits is read; no digit at all gives NaN.
ParseInt(s) ==
    LET t == SkipSpaces(s)
        neg == t # <<>> /\ Head(t) = "-"
        u == IF t # <<>> /\ Head(t) \in {"-", "+"} THEN Tail(t) ELSE t
        ds == DigitPrefix(u)
    IN  IF ds = <<>> THEN NaN
        ELSE Num(IF neg THEN 0 - DigitsValue(ds) ELSE DigitsValue(ds))

\* s.replace('@', ''): only the first occurrence is removed.
RECURSIVE ReplaceAt(_)
ReplaceAt(s) ==
    IF s = <<>> THEN <<>>
    ELSE IF Head(s) = "@" THEN Tail(s)
    ELSE <<Head(s)>> \o ReplaceAt(Tail(s))

RECURSIVE CollapseSlashes(_)
CollapseSlashes(s) ==
    IF Len(s) < 2 THEN s
    ELSE IF s[1] = "/" /\ s[2] = "/" THEN CollapseSlashes(Tail(s))
    ELSE <<Head(s)>> \o CollapseSlashes(Tail(s))

\* path.normalize on paths without '.' segments: the empty path is '.', runs of
\* separators collapse to one.
Normalize(s) == IF s = <<>> THEN <<".">> ELSE CollapseSlashes(s)

----------------------------------------------------------------------------
(* convertToJSON, per question *)

NewQuestion(qu) ==
    [ points      |-> ParseInt(qu.price),
      mode        |-> "default",
      type        |-> "plain",
      answers     |-> qu.right,
      task        |-> [text |-> <<>>, images |-> <<>>, sounds |-> <<>>, video |-> <<>>],
      explanation |-> <<>> ]

\* if (question.info) q.explanation = question.info[0].comments[0]
InfoThrows(qu) == qu.info.present /\ ~qu.info.hasComments

ApplyInfo(qo, qu) ==
    IF qu.info.present THEN [qo EXCEPT !.explanation = qu.info.comments[1]] ELSE qo

ApplyParamNoCost(qo, param) ==
    CASE param.name = "theme" -> [qo EXCEPT !.explanation = param.val]
      [] OTHER                -> qo

\* the body of the loop over question.type[0].param
ApplyParam(qo, param) ==
    CASE param.name = "cost"  -> [qo EXCEPT !.points = ParseInt(param.val)]
      [] param.name = "theme" -> [qo EXCEPT !.explanation = param.val]
      [] OTHER                -> qo

RECURSIVE ApplyParams(_, _)
ApplyParams(qo, params) ==
    IF params = <<>> THEN qo
    ELSE ApplyParams(ApplyParam(qo, Head(params)), Tail(params))

\* if (question.type) switch (typeName) ...
ApplyType(qo, qu) ==
    IF ~qu.type.present THEN qo
    ELSE IF qu.type.name \in {"cat", "bagcat"}
         THEN LET d == [qo EXCEPT !.mode = "delegate"]
              IN  IF qu.type.hasParams THEN ApplyParams(d, qu.type.param) ELSE d
         ELSE [qo EXCEPT !.mode = qu.type.name]

SetQuestionMediaTaskNoSay(qo, ms) ==
    CASE ms.type = "image"  ->
            [qo EXCEPT !.task.images = Append(@, Normalize(ReplaceAt(ms.text)))]
      [] ms.type = "voice"  ->
            [qo EXCEPT !.task.sounds = Append(@, Normalize(ReplaceAt(ms.text)))]
      [] ms.type = "video"  ->
            [qo EXCEPT !.task.video = Append(@, Normalize(ReplaceAt(ms.text)))]
      [] OTHER              -> qo

SetQuestionMediaTask(qo, ms) ==
    CASE ms.type = "image"  ->
            [qo EXCEPT !.task.images = Append(@, Normalize(ReplaceAt(ms.text)))]
      [] ms.type = "voice"  ->
            [qo EXCEPT !.task.sounds = Append(@, Normalize(ReplaceAt(ms.text)))]
      [] ms.type = "video"  ->
            [qo EXCEPT !.task.video = Append(@, Normalize(ReplaceAt(ms.text)))]
      [] ms.type = "say"    -> [qo EXCEPT !.explanation = ms.text]
      [] ms.type = "marker" -> qo
      [] OTHER              -> qo   \* console.warn, the entry is skipped

\* typeof scenario === 'string'
IsString(atom) == atom.type = "string"

ApplyAtomDropText(qo, atom) ==
    IF IsString(atom) THEN qo ELSE SetQuestionMediaTask(qo, atom)

\* the body of the loop over scenarioDetails
ApplyAtom(qo, atom) ==
    IF IsString(atom) THEN [qo EXCEPT !.task.text = atom.text]
    ELSE SetQuestionMediaTask(qo, atom)

RECURSIVE ApplyAtoms(_, _)
ApplyAtoms(qo, atoms) ==
    IF atoms = <<>> THEN qo
    ELSE ApplyAtoms(ApplyAtom(qo, Head(atoms)), Tail(atoms))

\* scenarioDetails[0] of an empty list is undefined: reading its $ throws
ScenarioThrows(qu) == qu.scenario = <<>>

ApplyScenarioFirstOnly(qo, qu) ==
    LET atoms == qu.scenario
    IN  IF IsString(atoms[1])
        THEN [qo EXCEPT !.task.text = atoms[1].text]
        ELSE LET m == [qo EXCEPT !.type = "media"]
             IN  IF Len(atoms) > 1 THEN ApplyAtoms(m, atoms)
                 ELSE SetQuestionMediaTask(m, atoms[1])

ApplyScenario(qo, qu) ==
    LET atoms == qu.scenario
    IN  IF Len(atoms) = 1 /\ IsString(atoms[1])
        THEN [qo EXCEPT !.task.text = atoms[1].text]
        ELSE LET m == [qo EXCEPT !.type = "media"]
             IN  IF Len(atoms) > 1 THEN ApplyAtoms(m, atoms)
                 ELSE SetQuestionMediaTask(m, atoms[1])

QuestionThrows(qu) == InfoThrows(qu) \/ ScenarioThrows(qu)

ConvertQuestion(qu) == ApplyScenario(ApplyType(ApplyInfo(NewQuestion(qu), qu), qu), qu)

----------------------------------------------------------------------------
(* Question nodes handed to the mapper *)

TxtA == <<"A">>
TxtB == <<"B">>
TxtC == <<"C">>

Prices == { <<"1", "0", "0">>, <<"1", "2", "a">>, <<"a">>, <<" ", "-", "7">> }
Costs == { <<"5", "0", "0">>, <<"2", "5">>, <<"7", "a">>, <<>> }

NoInfo == [present |-> FALSE, hasComments |-> FALSE, comments |-> <<>>]
Infos ==
    { NoInfo, [present |-> TRUE, hasComments |-> FALSE, comments |-> <<>>] }
    \cup { [present |-> TRUE, hasComments |-> TRUE, comments |-> cs] :
             cs \in { <<TxtA, TxtB>>, <<TxtB, TxtA>> } }

ParamSet ==
    { [name |-> "cost", val |-> v] : v \in Costs }
    \cup { [name |-> "theme", val |-> v] : v \in {TxtB, TxtC} }
    \cup { [name |-> "other", val |-> TxtA] }

SeqsUpTo(S, n) == UNION { [1..k -> S] : k \in 0..n }

NoType == [present |-> FALSE, name |-> "", hasParams |-> FALSE, param |-> <<>>]
TypesOver(P) ==
    { NoType }
    \cup { [present |-> TRUE, name |-> nm, hasParams |-> FALSE, param |-> <<>>] :
             nm \in {"cat", "bagcat", "auction"} }
    \cup { [present |-> TRUE, name |-> nm, hasParams |-> TRUE, param |-> ps] :
             nm \in {"cat", "bagcat", "auction"}, ps \in SeqsUpTo(P, MaxParams) }

Str(t) == [type |-> "string", text |-> t]
Media(k, t) == [type |-> k, text |-> t]

AtomSet ==
    { Str(<<>>), Str(TxtA),
      Media("say", TxtA), Media("say", TxtC),
      Media("image", <<"@", "A">>),
      Media("voice", <<"@", "A", "/", "/", "B">>),
      Media("video", <<"@", "@", "B">>),
      Media("marker", TxtA),
      Media("group", TxtA) }

ExplAtomSet == { Str(TxtA), Media("say", TxtA), Media("say", TxtC), Media("image", <<"@", "A">>) }

Node(p, i, t, s) ==
    [price |-> p, info |-> i, type |-> t, right |-> <<TxtA>>, scenario |-> s]

\* price and type vary, one literal or one image atom
PointsQuestions ==
    { Node(p, NoInfo, t, s) :
        p \in Prices, t \in TypesOver(ParamSet), s \in { <<Str(TxtA)>>, <<Media("image", TxtA)>> } }

\* the scenario varies over every atom list
ScenarioQuestions ==
    { Node(<<"1", "0", "0">>, i, NoType, s) :
        i \in {NoInfo, [present |-> TRUE, hasComments |-> TRUE, comments |-> <<TxtB>>]},
        s \in SeqsUpTo(AtomSet, MaxAtoms) }

\* the three sources of the explanation vary together
ExplanationQuestions ==
    { Node(<<"1", "0", "0">>, i, t, s) :
        i \in Infos,
        t \in TypesOver({ pr \in ParamSet : pr.name # "cost" }),
        s \in SeqsUpTo(ExplAtomSet, MaxAtoms) \ {<<>>} }

Questions == PointsQuestions \cup ScenarioQuestions \cup ExplanationQuestions

NoQ ==
    [ points      |-> NaN,
      mode        |-> "",
      type        |-> "",
      answers     |-> <<>>,
      task        |-> [text |-> <<>>, images |-> <<>>, sounds |-> <<>>, video |-> <<>>],
      explanation |-> <<>> ]

----------------------------------------------------------------------------
(* The archive and the file system *)

ContentXml == "content.xml"
ContentTypes == "[Content_Types].xml"
TextsFile == "Texts/authors.xml"
MediaFile == "Images/a.png"
ScenarioJson == "scenario.json"
OldFile == "old.txt"

FileNames == {ContentXml, ContentTypes, TextsFile, MediaFile, ScenarioJson, OldFile}

\* the archives of the model: entries in archive order
Archives ==
    { <<ContentXml, ContentTypes, TextsFile, MediaFile>>,
      <<MediaFile, ContentXml>>,
      <<ContentXml>>,
      <<MediaFile>> }

\* path.basename(relativePath) without its extension, and another package id
Filename == "pack"
OtherId == "other"
DirNames == {Filename, OtherId}

NoFiles == [f \in FileNames |-> "absent"]
NoDir == [exists |-> FALSE, files |-> NoFiles]
OldDir == [exists |-> TRUE, files |-> [NoFiles EXCEPT ![OldFile] = "complete"]]

\* the questions of content.xml in the runs of the whole program
RunQuestions ==
    { Node(p, i, NoType, <<Str(TxtA)>>) :
        p \in { <<"1", "0", "0">>, <<"a">> },
        i \in { NoInfo, [present |-> TRUE, hasComments |-> FALSE, comments |-> <<>>] } }

EntryIndex == 1..4

----------------------------------------------------------------------------
(* The state after the synchronous prologue: the input file exists *)

Init ==
    /\ question \in RunQuestions
    /\ q = NoQ
    /\ mapState = "idle"
    /\ pc = "unzip"
    /\ pkgId \in DirNames
    /\ xmlOk \in BOOLEAN
    /\ archive \in Archives
    /\ emitted = 0
    /\ ws = [i \in EntryIndex |-> "none"]
    /\ unzipPromise = "pending"
    /\ \E pre \in BOOLEAN :
         dirs = [d \in DirNames |-> IF pre /\ d = pkgId THEN OldDir ELSE NoDir]
    /\ xmlRead = "none"
    /\ error = "none"
    /\ failedStage = "none"
    /\ diag = FALSE
    /\ proc = "running"
    /\ exitCode = 0
    /\ cleanupErrs = {}

Running == proc = "running"

Reject(stage, code) ==
    /\ pc' = "catch"
    /\ error' = code
    /\ failedStage' = stage

----------------------------------------------------------------------------
(* unzip *)

\* 'entry': the directory is asserted and the entry is piped to a write stream
OnEntry ==
    /\ Running
    /\ unzipPromise = "pending"
    /\ emitted < Len(archive)
    /\ emitted' = emitted + 1
    /\ ws' = [ws EXCEPT ![emitted + 1] = "open"]
    /\ dirs' = [dirs EXCEPT ![Filename] =
                  [exists |-> TRUE,
                   files  |-> [dirs[Filename].files EXCEPT ![archive[emitted + 1]] = "partial"]]]
    /\ UNCHANGED <<question, q, mapState, pc, pkgId, xmlOk, archive, unzipPromise, xmlRead,
                   error, failedStage, diag, proc, exitCode, cleanupErrs>>

\* fs.mkdirSync throws inside the 'entry' listener, which the parser calls from its
\* own promise chain: the exception comes back as the parser's 'error' event
MkdirFails ==
    /\ Running
    /\ unzipPromise = "pending"
    /\ emitted < Len(archive)
    /\ dirs[Filename].exists => archive[emitted + 1] \in {TextsFile, MediaFile}
    /\ emitted' = emitted + 1
    /\ ws' = [ws EXCEPT ![emitted + 1] = "mkdir-error"]
    /\ unzipPromise' = "rejected"
    /\ UNCHANGED <<question, q, mapState, pc, pkgId, xmlOk, archive, dirs, xmlRead,
                   error, failedStage, diag, proc, exitCode, cleanupErrs>>

\* the write stream of an entry has flushed everything: 'finish'
WriteFinish(i) ==
    /\ Running
    /\ ws[i] = "open"
    /\ ws' = [ws EXCEPT ![i] = "finished"]
    /\ dirs' = [d \in DirNames |->
                  IF dirs[d].exists /\ dirs[d].files[archive[i]] = "partial"
                  THEN [dirs[d] EXCEPT !.files[archive[i]] = "complete"]
                  ELSE dirs[d]]
    /\ UNCHANGED <<question, q, mapState, pc, pkgId, xmlOk, archive, emitted, unzipPromise,
                   xmlRead, error, failedStage, diag, proc, exitCode, cleanupErrs>>

\* the write stream of an entry emits 'error'; it has no 'error' listener, so the
\* event is thrown as an uncaught exception and the process dies
WriteError(i) ==
    /\ Running
    /\ ws[i] = "open"
    /\ ws' = [ws EXCEPT ![i] = "error"]
    /\ proc' = "crashed"
    /\ exitCode' = 1
    /\ UNCHANGED <<question, q, mapState, pc, pkgId, xmlOk, archive, emitted, unzipPromise,
                   dirs, xmlRead, error, failedStage, diag, cleanupErrs>>

\* .once('close', resolve): the parser has gone through the whole archive
ParserClose ==
    /\ Running
    /\ unzipPromise = "pending"
    /\ emitted = Len(archive)
    /\ unzipPromise' = "resolved"
    /\ UNCHANGED <<question, q, mapState, pc, pkgId, xmlOk, archive, emitted, ws, dirs,
                   xmlRead, error, failedStage, diag, proc, exitCode, cleanupErrs>>

\* .once('error', reject): the archive cannot be read or is not a zip
ParserError ==
    /\ Running
    /\ unzipPromise = "pending"
    /\ unzipPromise' = "rejected"
    /\ UNCHANGED <<question, q, mapState, pc, pkgId, xmlOk, archive, emitted, ws, dirs,
                   xmlRead, error, failedStage, diag, proc, exitCode, cleanupErrs>>

----------------------------------------------------------------------------
(* The top-level promise chain *)

\* unzip(...) rejected: every .then is skipped
UnzipRejected ==
    /\ Running
    /\ pc = "unzip"
    /\ unzipPromise = "rejected"
    /\ Reject("unzip", "EOTHER")
    /\ UNCHANGED <<question, q, mapState, pkgId, xmlOk, archive, emitted, ws, unzipPromise,
                   dirs, xmlRead, diag, proc, exitCode, cleanupErrs>>

\* .then(() => readFilePromise(rootXml))
ThenRead ==
    /\ Running
    /\ pc = "unzip"
    /\ unzipPromise = "resolved"
    /\ IF dirs[Filename].exists /\ dirs[Filename].files[ContentXml] # "absent"
       THEN /\ xmlRead' = dirs[Filename].files[ContentXml]
            /\ pc' = "parse"
            /\ UNCHANGED <<error, failedStage>>
       ELSE /\ Reject("read", "ENOENT")
            /\ UNCHANGED xmlRead
    /\ UNCHANGED <<question, q, mapState, pkgId, xmlOk, archive, emitted, ws, unzipPromise,
                   dirs, diag, proc, exitCode, cleanupErrs>>

\* .then((xml) => xml2js.parseStringPromise(xml)): a file read before its write
\* stream finished may be cut short
ThenParse ==
    /\ Running
    /\ pc = "parse"
    /\ \/ /\ xmlOk
          /\ pc' = "map"
          /\ UNCHANGED <<error, failedStage>>
       \/ /\ ~xmlOk \/ xmlRead = "partial"
          /\ Reject("parse", "EOTHER")
    /\ UNCHANGED <<question, q, mapState, pkgId, xmlOk, archive, emitted, ws, unzipPromise,
                   dirs, xmlRead, diag, proc, exitCode, cleanupErrs>>

\* .then((parcedPackage) => ...): convertToJSON, then fs.writeFileSync of scenario.json
ThenMap ==
    /\ Running
    /\ pc = "map"
    /\ \/ /\ QuestionThrows(question)
          /\ mapState' = "threw"
          /\ Reject("map", "EOTHER")
          /\ UNCHANGED <<q, dirs>>
       \/ /\ ~QuestionThrows(question)
          /\ mapState' = "done"
          /\ q' = ConvertQuestion(question)
          /\ \/ /\ dirs' = [dirs EXCEPT ![Filename].files[ScenarioJson] = "complete"]
                /\ pc' = "remove"
                /\ UNCHANGED <<error, failedStage>>
             \/ /\ Reject("write", "EOTHER")
                /\ UNCHANGED dirs
    /\ UNCHANGED <<question, pkgId, xmlOk, archive, emitted, ws, unzipPromise,
                   xmlRead, diag, proc, exitCode, cleanupErrs>>

\* .then((renamedFolder) => ...): an existing target folder is removed
ThenRemove ==
    /\ Running
    /\ pc = "remove"
    /\ IF dirs[pkgId].exists
       THEN \/ /\ dirs' = [dirs EXCEPT ![pkgId] = NoDir]
               /\ pc' = "rename"
               /\ UNCHANGED <<error, failedStage>>
            \/ /\ Reject("remove", "EOTHER")
               /\ UNCHANGED dirs
       ELSE /\ pc' = "rename"
            /\ UNCHANGED <<dirs, error, failedStage>>
    /\ UNCHANGED <<question, q, mapState, pkgId, xmlOk, archive, emitted, ws, unzipPromise,
                   xmlRead, diag, proc, exitCode, cleanupErrs>>

\* .then((folderPath) => renamePromise(unzippedFolder, folderPath))
ThenRename ==
    /\ Running
    /\ pc = "rename"
    /\ IF ~dirs[Filename].exists
       THEN /\ Reject("rename", "ENOENT")
            /\ UNCHANGED dirs
       ELSE \/ /\ dirs' = [d \in DirNames |-> IF d = pkgId THEN dirs[Filename] ELSE NoDir]
               /\ pc' = "cleanup"
               /\ UNCHANGED <<error, failedStage>>
            \/ /\ Reject("rename", "EOTHER")
               /\ UNCHANGED dirs
    /\ UNCHANGED <<question, q, mapState, pkgId, xmlOk, archive, emitted, ws, unzipPromise,
                   xmlRead, diag, proc, exitCode, cleanupErrs>>

\* fs.unlink of one file of the renamed folder: its outcome and the folder after it
UnlinkOutcomes(dir, f) ==
    IF dir.files[f] = "absent"
    THEN { [err |-> "ENOENT", dir |-> dir] }
    ELSE { [err |-> "none", dir |-> [dir EXCEPT !.files[f] = "absent"]],
           [err |-> "EOTHER", dir |-> dir] }

\* rimraf of ./Texts: a missing folder is no error
RimrafOutcomes(dir) ==
    IF dir.files[TextsFile] = "absent"
    THEN { [err |-> "none", dir |-> dir] }
    ELSE { [err |-> "none", dir |-> [dir EXCEPT !.files[TextsFile] = "absent"]],
           [err |-> "EOTHER", dir |-> dir] }

\* .then((folderPath) => Promise.allSettled([...])): never rejects
ThenCleanup ==
    /\ Running
    /\ pc = "cleanup"
    /\ \E a \in UnlinkOutcomes(dirs[pkgId], ContentXml) :
         \E b \in UnlinkOutcomes(a.dir, ContentTypes) :
           \E c \in RimrafOutcomes(b.dir) :
             /\ dirs' = [dirs EXCEPT ![pkgId] = c.dir]
             /\ cleanupErrs' = {a.err, b.err, c.err} \ {"none"}
    /\ pc' = "done"
    /\ UNCHANGED <<question, q, mapState, pkgId, xmlOk, archive, emitted, ws, unzipPromise,
                   xmlRead, error, failedStage, diag, proc, exitCode>>

\* .catch((error) => { if (error.code !== 'ENOENT') console.error(...) })
Catch ==
    /\ Running
    /\ pc = "catch"
    /\ diag' = (error # "ENOENT")
    /\ pc' = "done"
    /\ UNCHANGED <<question, q, mapState, pkgId, xmlOk, archive, emitted, ws, unzipPromise,
                   dirs, xmlRead, error, failedStage, proc, exitCode, cleanupErrs>>

\* the chain has settled and no stream is open: the event loop is empty, node exits
\* with process.exitCode, which nothing has set
Exit ==
    /\ Running
    /\ pc = "done"
    /\ \A i \in EntryIndex : ws[i] # "open"
    /\ proc' = "exited"
    /\ exitCode' = 0
    /\ UNCHANGED <<question, q, mapState, pc, pkgId, xmlOk, archive, emitted, ws,
                   unzipPromise, dirs, xmlRead, error, failedStage, diag, cleanupErrs>>

Next ==
    \/ OnEntry
    \/ MkdirFails
    \/ \E i \in EntryIndex : WriteFinish(i)
    \/ \E i \in EntryIndex : WriteError(i)
    \/ ParserClose
    \/ ParserError
    \/ UnzipRejected
    \/ ThenRead
    \/ ThenParse
    \/ ThenMap
    \/ ThenRemove
    \/ ThenRename
    \/ ThenCleanup
    \/ Catch
    \/ Exit

Spec == Init /\ [][Next]_vars

----------------------------------------------------------------------------
(* convertToJSON on its own: one question node in, one question object out *)

InitMap ==
    /\ question \in Questions
    /\ q = NoQ
    /\ mapState = "idle"
    /\ pc = "off"
    /\ pkgId = Filename
    /\ xmlOk = TRUE
    /\ archive = <<ContentXml>>
    /\ emitted = 0
    /\ ws = [i \in EntryIndex |-> "none"]
    /\ unzipPromise = "pending"
    /\ dirs = [d \in DirNames |-> NoDir]
    /\ xmlRead = "none"
    /\ error = "none"
    /\ failedStage = "none"
    /\ diag = FALSE
    /\ proc = "running"
    /\ exitCode = 0
    /\ cleanupErrs = {}

ConvertThrows ==
    /\ mapState = "idle"
    /\ QuestionThrows(question)
    /\ mapState' = "threw"
    /\ UNCHANGED <<question, q>>
    /\ UNCHANGED chainVars

ConvertReturns ==
    /\ mapState = "idle"
    /\ ~QuestionThrows(question)
    /\ mapState' = "done"
    /\ q' = ConvertQuestion(question)
    /\ UNCHANGED question
    /\ UNCHANGED chainVars

NextMap == ConvertThrows \/ ConvertReturns

SpecMap == InitMap /\ [][NextMap]_vars

----------------------------------------------------------------------------
(* What the claims speak of, read off the input node alone *)

SayTexts(atoms) == SelectSeq(atoms, LAMBDA a : a.type = "say")
Literals(atoms) == SelectSeq(atoms, LAMBDA a : a.type = "string")
IsWager(t) == t.present /\ t.name \in {"cat", "bagcat"}
ParamsNamed(t, nm) ==
    IF IsWager(t) /\ t.hasParams THEN SelectSeq(t.param, LAMBDA pr : pr.name = nm) ELSE <<>>
Last(s) == s[Len(s)]

ExpectedExplanation(qu) ==
    IF SayTexts(qu.scenario) # <<>> THEN Last(SayTexts(qu.scenario)).text
    ELSE IF ParamsNamed(qu.type, "theme") # <<>> THEN Last(ParamsNamed(qu.type, "theme")).val
    ELSE IF qu.info.present THEN qu.info.comments[1]
    ELSE <<>>

\* an optional minus sign followed by decimal digits only, at least one
WellFormedInt(s) ==
    /\ s # <<>>
    /\ LET body == IF Head(s) = "-" THEN Tail(s) ELSE s
       IN  body # <<>> /\ \A k \in 1..Len(body) : body[k] \in Digits

RECURSIVE Horner(_, _)
Horner(acc, s) == IF s = <<>> THEN acc ELSE Horner(10 * acc + DigitVal(Head(s)), Tail(s))
IntegerValue(s) == IF Head(s) = "-" THEN 0 - Horner(0, Tail(s)) ELSE Horner(0, s)

SingleLiteral(qu) == Len(qu.scenario) = 1 /\ qu.scenario[1].type = "string"

OnDisk(f) == \E d \in DirNames : dirs[d].exists /\ dirs[d].files[f] # "absent"

----------------------------------------------------------------------------
(* The claims *)

\* C1: the promise returned by unzip resolves only after the write stream of every
\* entry has finished, and content.xml is never read while a write stream of any
\* entry is still unfinished.
C1_UnzipResolvesAfterWrites ==
    (unzipPromise = "resolved" \/ pc = "parse")
        => \A i \in 1..Len(archive) : ws[i] = "finished"

\* C2: after a run whose extraction, parsing and mapping succeeded and in which no
\* file-system call was refused, the folder named after the package id exists and
\* holds scenario.json and the extracted media, whatever the id.
C2_OutputFolderHoldsResult ==
    (proc = "exited" /\ mapState = "done" /\ failedStage \notin {"write"}
       /\ error # "EOTHER" /\ "EOTHER" \notin cleanupErrs)
        => /\ dirs[pkgId].exists
           /\ dirs[pkgId].files[ScenarioJson] = "complete"
           /\ \A i \in 1..Len(archive) :
                archive[i] = MediaFile => dirs[pkgId].files[MediaFile] = "complete"

\* C3: every failure of a stage of the chain is reported by a diagnostic and a
\* non-zero exit code; of the cleanup errors only ENOENT is silent.
C3_FailuresAreReported ==
    proc = "exited"
        => /\ failedStage # "none" => (diag /\ exitCode # 0)
           /\ "EOTHER" \in cleanupErrs => diag

\* C4: once the chain has settled, a scenario.json on disk means that every step up
\* to and including the cleanup succeeded.
C4_ScenarioJsonMeansSuccess ==
    (pc = "done" /\ OnDisk(ScenarioJson))
        => /\ failedStage = "none"
           /\ cleanupErrs \subseteq {"ENOENT"}

\* C5: when writing an entry fails (its write stream or the creation of its folder),
\* the promise of unzip is rejected and the chain never reaches the read of
\* content.xml.
C5_WriteFailureRejects ==
    (\E i \in EntryIndex : ws[i] \in {"error", "mkdir-error"})
        => /\ unzipPromise = "rejected"
           /\ xmlRead = "none"
           /\ mapState = "idle"

C7_PlainIffSingleLiteralNonEmpty ==
    mapState = "done"
        => /\ q.type = "plain" <=> SingleLiteral(question)
           /\ q.type # "plain" => q.type = "media"
           /\ q.type = "plain"
                => /\ q.task.text = question.scenario[1].text
                   /\ q.task.text # <<>>
                   /\ q.task.images = <<>> /\ q.task.sounds = <<>> /\ q.task.video = <<>>

\* C7 amended: type is plain exactly for a single literal atom, and then the text is
\* that string, empty exactly when the atom is the empty string, and no media is
\* listed; all else is media.
C7_PlainIffSingleLiteral ==
    mapState = "done"
        => /\ q.type = "plain" <=> SingleLiteral(question)
           /\ q.type # "plain" => q.type = "media"
           /\ q.type = "plain"
                => /\ q.task.text = question.scenario[1].text
                   /\ q.task.images = <<>> /\ q.task.sounds = <<>> /\ q.task.video = <<>>

\* C7 witness: a single empty literal atom gives a plain question with empty text.
C7_Witness ==
    /\ mapState = "done"
    /\ question.scenario = <<Str(<<>>)>>
    /\ q.type = "plain"
    /\ q.task.text = <<>>

\* C8: a cat or bagcat type gives mode delegate, and points is the integer of its
\* last cost param if it has one and the price otherwise; any other type name is
\* copied to mode and leaves points at the price; no type gives mode default.
C8_ModeAndPoints ==
    mapState = "done"
        => LET t == question.type
               costs == ParamsNamed(t, "cost")
               priced == WellFormedInt(question.price)
                            => q.points = Num(IntegerValue(question.price))
           IN  /\ ~t.present => (q.mode = "default" /\ priced)
               /\ IsWager(t) => q.mode = "delegate"
               /\ (IsWager(t) /\ costs # <<>> /\ WellFormedInt(Last(costs).val))
                     => q.points = Num(IntegerValue(Last(costs).val))
               /\ (IsWager(t) /\ costs = <<>>) => priced
               /\ (t.present /\ ~IsWager(t)) => (q.mode = t.name /\ priced)

\* C8 witness: price 100, cost params 25 then 500 on a cat type give 500 points.
C8_Witness ==
    /\ mapState = "done"
    /\ question.price = <<"1", "0", "0">>
    /\ question.type.present /\ question.type.name = "cat"
    /\ question.type.param = << [name |-> "cost", val |-> <<"2", "5">>],
                                [name |-> "cost", val |-> <<"5", "0", "0">>] >>
    /\ q.mode = "delegate"
    /\ q.points = Num(500)

\* C9: a price that is not a well-formed integer aborts the run: the mapping does
\* not return and no scenario.json is written.
C9_MalformedIntegerAborts ==
    ~WellFormedInt(question.price) => (mapState # "done" /\ ~OnDisk(ScenarioJson))

\* C10 as stated: a media question has an empty task text.
C10_MediaHasNoText ==
    (mapState = "done" /\ q.type = "media") => q.task.text = <<>>

\* C10 amended: the task text of a media question is the last literal string of its
\* atom list, and is empty when the list has no literal string.
C10_MediaTextIsLastLiteral ==
    (mapState = "done" /\ q.type = "media")
        => q.task.text = IF Literals(question.scenario) = <<>> THEN <<>>
                         ELSE Last(Literals(question.scenario)).text

\* C10 witness: a literal string beside an image gives a media question with text.
C10_Witness ==
    /\ mapState = "done"
    /\ q.type = "media"
    /\ Literals(question.scenario) # <<>>
    /\ q.task.images # <<>>
    /\ q.task.text = TxtA

====
